---- MODULE Spec2Model ----
(***************************************************************************)
(* Model of src/app.py: the crawl loop of CloseDocScraper                  *)
(* (crawl_documentation / scrape_page / is_documentation_url), the         *)
(* categorizer and bundle builder (create_organized_files) and the part of *)
(* main() that drives them.                                                *)
(*                                                                         *)
(* Text is modelled as a sequence of tokens (strings).  The token alphabet *)
(* is chosen so that a Python substring / endswith test on the             *)
(* concatenated text agrees with a contiguous-subsequence / last-token     *)
(* test on the token sequence.  A URL is such a token sequence:            *)
(*   <<"https://", host, "/", segment, ..., "#fragment">>.                 *)
(***************************************************************************)
EXTENDS Naturals, Sequences, FiniteSets, TLC

(***************************************************************************)
(* Bounds of the model.                                                    *)
(***************************************************************************)
\* hrefs served by the whole site, summed over its pages
MaxLinks == 3
\* fetches (session.get / raise_for_status / parse) that may fail in a run
MaxFail == 1
\* records of a Corpus drawn directly (categorizer specification)
MaxCorpus == 2
\* calls of create_organized_files on one scraper
MaxCalls == 2
\* calls of crawl_documentation on one scraper
MaxRuns == 2

(***************************************************************************)
(* Generic helpers on sequences.                                           *)
(***************************************************************************)
Range(s) == {s[i] : i \in 1..Len(s)}

InSeq(x, s) == \E i \in 1..Len(s) : s[i] = x

NoDup(s) == \A i, j \in 1..Len(s) : s[i] = s[j] => i = j

SeqUpTo(S, n) == UNION {[1..k -> S] : k \in 0..n}

\* position of the first occurrence of x in s (0 when absent)
IndexOf(x, s) == IF InSeq(x, s) THEN CHOOSE i \in 1..Len(s) : s[i] = x /\ \A j \in 1..(i-1) : s[j] # x ELSE 0

\* Python "needle in text" on token sequences: contiguous subsequence
Contains(text, needle) ==
  \E i \in 0..(Len(text) - Len(needle)) : \A j \in 1..Len(needle) : text[i + j] = needle[j]

(***************************************************************************)
(* URLs and hrefs.                                                         *)
(***************************************************************************)
Scheme == "https://"

DocHost == "developer.close.com"

base_url == <<Scheme, DocHost>>

\* path segments of the documentation pages other than the start page
PathNames == <<"leads", "guide">>

PageUrl(n) == base_url \o <<"/", n>>

FragTok == "#section"

\* the hrefs a page of the site may carry
HrefHome == base_url
HrefPath(n) == <<"/", n>>
HrefFrag == <<FragTok>>
HrefExt == <<Scheme, "github.com", "/", "closeio">>
HrefBad == <<"http://[">>

Hrefs == {HrefHome, HrefFrag, HrefExt, HrefBad} \cup {HrefPath(n) : n \in Range(PathNames)}

\* urldefrag: the URL without its fragment (what the request line carries)
StripFragment(u) ==
  IF InSeq(FragTok, u) THEN SubSeq(u, 1, IndexOf(FragTok, u) - 1) ELSE u

\* urllib.parse raises ValueError ("Invalid IPv6 URL") on such an href
Resolvable(href) == href[1] # "http://["

\* urllib.parse.urljoin(base, href) for absolute, path-absolute and
\* fragment-only hrefs
UrlJoin(base, href) ==
  IF href[1] = Scheme THEN href
  ELSE IF href[1] = FragTok THEN StripFragment(base) \o href
  ELSE <<base[1], base[2]>> \o href

\* schemes followed by an authority
WebSchemes == {Scheme, "http://"}

\* urlparse(url).netloc
Netloc(url) == IF Len(url) >= 2 /\ url[1] \in WebSchemes THEN url[2] ELSE ""

FileExts == {".pdf", ".jpg", ".png", ".css", ".js", ".svg", ".ico"}

ExternalMarks == {"github.com", "twitter.com", "linkedin.com", "mailto:", "tel:"}

is_documentation_url(url) ==
  LET is_close_domain == Netloc(url) = DocHost
      is_not_file == ~(Len(url) > 0 /\ url[Len(url)] \in FileExts)
      is_not_external == ~(\E d \in ExternalMarks : Contains(url, <<d>>))
  IN is_close_domain /\ is_not_file /\ is_not_external

(***************************************************************************)
(* The site: what the server returns for a page (a resource is a URL       *)
(* without fragment).                                                      *)
(***************************************************************************)
\* the page at /leads has no <title> element; scrape_page falls back to
\* url.split('/')[-1]
HasTitle(res) == res # PageUrl("leads")

PageTitle(res) == IF res = base_url THEN <<"Close", " ", "API">> ELSE <<"Webhooks">>

\* url.split('/')[-1]: the tokens after the last token that holds a slash
RECURSIVE LastSegment(_)
LastSegment(url) ==
  IF url = <<>> \/ url[Len(url)] \in {Scheme, "/"} THEN <<>>
  ELSE Append(LastSegment(SubSeq(url, 1, Len(url) - 1)), url[Len(url)])

title_text(url) ==
  IF HasTitle(StripFragment(url)) THEN PageTitle(StripFragment(url)) ELSE LastSegment(url)

(***************************************************************************)
(* scraped_content: a Python dict, which keeps insertion order.  Modelled  *)
(* as a sequence of records with pairwise distinct url.  (The fields       *)
(* content, code_examples and scraped_at of a record play no part in the   *)
(* crawl or the categorization and are left out.)                          *)
(***************************************************************************)
Keys(content) == {content[i].url : i \in 1..Len(content)}

\* a mapping rebuilt at every store
DictReset(content, url, record) == <<record>>

\* scraped_content[url] = record
DictSet(content, url, record) ==
  IF url \in Keys(content)
  THEN [i \in 1..Len(content) |-> IF content[i].url = url THEN record ELSE content[i]]
  ELSE Append(content, record)

(***************************************************************************)
(* create_organized_files: the categorizer.                                *)
(***************************************************************************)
\* the rules with Custom_Objects tried first
CustomObjectsFirst == <<
  [name |-> "Custom_Objects",
   keywords |-> << <<"custom-", "activities">>, <<"custom-", "objects">>, <<"custom-", "fields">> >>],
  [name |-> "API_Overview",
   keywords |-> << <<"introduction">>, <<"getting-started">>, <<"authentication">>, <<"api-clients">> >>],
  [name |-> "Resources",
   keywords |-> << <<"leads">>, <<"contacts">>, <<"opportunities">>, <<"activities">>, <<"tasks">> >>],
  [name |-> "Advanced_Features",
   keywords |-> << <<"webhooks">>, <<"custom-", "fields">>, <<"reporting">>, <<"bulk-actions">> >>],
  [name |-> "Integration_Topics",
   keywords |-> << <<"rate-limits">>, <<"errors">>, <<"pagination">>, <<"filtering">> >>]
>>

\* categories = {...}: the rules in the order the dict lists them
categories == <<
  [name |-> "API_Overview",
   keywords |-> << <<"introduction">>, <<"getting-started">>, <<"authentication">>, <<"api-clients">> >>],
  [name |-> "Resources",
   keywords |-> << <<"leads">>, <<"contacts">>, <<"opportunities">>, <<"activities">>, <<"tasks">> >>],
  [name |-> "Advanced_Features",
   keywords |-> << <<"webhooks">>, <<"custom-", "fields">>, <<"reporting">>, <<"bulk-actions">> >>],
  [name |-> "Integration_Topics",
   keywords |-> << <<"rate-limits">>, <<"errors">>, <<"pagination">>, <<"filtering">> >>],
  [name |-> "Custom_Objects",
   keywords |-> << <<"custom-", "activities">>, <<"custom-", "objects">>, <<"custom-", "fields">> >>]
>>

\* a comparison that keeps the letter case
LowerNot(tok) == tok

\* str.lower() on one token
Lower(tok) ==
  CASE tok = "Webhooks" -> "webhooks"
    [] tok = "WEBHOOKS" -> "webhooks"
    [] tok = "Leads" -> "leads"
    [] tok = "Close" -> "close"
    [] tok = "API" -> "api"
    [] tok = "Errors" -> "errors"
    [] OTHER -> tok

LowerText(text) == [i \in 1..Len(text) |-> Lower(text[i])]

\* any(keyword in url_lower or keyword in title_lower for keyword in keywords)
KeywordHit(record, keywords) ==
  \E k \in 1..Len(keywords) :
    \/ Contains(LowerText(record.url), keywords[k])
    \/ Contains(LowerText(record.title), keywords[k])

EmptyBuckets == [categorized |-> [c \in 1..Len(categories) |-> <<>>], uncategorized |-> <<>>]

\* the category loop without its break: the record joins every matching bucket
PlaceNoBreak(b, record, c) ==
  LET hits == {k \in c..Len(categories) : KeywordHit(record, categories[k].keywords)}
  IN IF hits = {}
     THEN [b EXCEPT !.uncategorized = Append(@, record)]
     ELSE [b EXCEPT !.categorized =
             [k \in 1..Len(categories) |-> IF k \in hits THEN Append(@[k], record) ELSE @[k]]]

\* the loop "for category, keywords in categories.items()" with its break,
\* entered at category c, followed by "if not categorized"
RECURSIVE Place(_, _, _)
Place(b, record, c) ==
  IF c > Len(categories)
  THEN [b EXCEPT !.uncategorized = Append(@, record)]
  ELSE IF KeywordHit(record, categories[c].keywords)
       THEN [b EXCEPT !.categorized[c] = Append(@, record)]
       ELSE Place(b, record, c + 1)

\* the loop "for url, content in self.scraped_content.items()"
RECURSIVE Categorize(_, _)
Categorize(b, content) ==
  IF content = <<>> THEN b
  ELSE Categorize(Place(b, Head(content), 1), Tail(content))

(***************************************************************************)
(* create_organized_files: the bundle builder.  A file is                  *)
(* [name, docs, pages]: docs are the file names a master index lists,      *)
(* pages the records the file renders, in order.                           *)
(***************************************************************************)
\* Python orders str by code point; the tokens of titles in that order
TokenOrder == <<" ", "#section", "API", "Close", "Errors", "Leads", "WEBHOOKS", "Webhooks",
                "activities", "custom-", "developer.close.com", "errors", "fields", "guide",
                "introduction", "leads", "objects", "webhooks">>

\* a < b for two titles
RECURSIVE TitleLess(_, _)
TitleLess(a, b) ==
  IF b = <<>> THEN FALSE
  ELSE IF a = <<>> THEN TRUE
  ELSE IF Head(a) = Head(b) THEN TitleLess(Tail(a), Tail(b))
  ELSE IndexOf(Head(a), TokenOrder) < IndexOf(Head(b), TokenOrder)

\* sorted(..., key=title): stable, so a record goes after the records that
\* are not greater
RECURSIVE InsertSorted(_, _)
InsertSorted(sorted, record) ==
  IF sorted = <<>> THEN <<record>>
  ELSE IF TitleLess(record.title, Head(sorted).title) THEN <<record>> \o sorted
  ELSE <<Head(sorted)>> \o InsertSorted(Tail(sorted), record)

RECURSIVE SortedPages(_)
SortedPages(content) ==
  IF content = <<>> THEN <<>>
  ELSE InsertSorted(SortedPages(SubSeq(content, 1, Len(content) - 1)), content[Len(content)])

CategoryFileName(c) == <<"Tech_Close_", categories[c].name, ".md">>

AdditionalFileName == <<"Tech_Close_", "Additional", ".md">>

IndexFileName == <<"Tech_Close_", "Master_Index", ".md">>

BackupFileName == <<"complete_documentation", ".json">>

\* the category loop without its "if contents" test
CategoryFilesAlways(b, c) ==
  [k \in 1..(Len(categories) - c + 1) |->
     [name |-> CategoryFileName(c + k - 1), docs |-> <<>>, pages |-> b.categorized[c + k - 1]]]

\* "for category, contents in categorized_content.items(): if contents:"
RECURSIVE CategoryFiles(_, _)
CategoryFiles(b, c) ==
  IF c > Len(categories) THEN <<>>
  ELSE (IF b.categorized[c] # <<>>
        THEN <<[name |-> CategoryFileName(c), docs |-> <<>>, pages |-> b.categorized[c]]>>
        ELSE <<>>) \o CategoryFiles(b, c + 1)

BuildFiles(b, content) ==
  LET bucket_files ==
        CategoryFiles(b, 1) \o
        (IF b.uncategorized # <<>>
         THEN <<[name |-> AdditionalFileName, docs |-> <<>>, pages |-> b.uncategorized]>>
         ELSE <<>>)
      index == [name |-> IndexFileName,
                docs |-> [i \in 1..Len(bucket_files) |-> bucket_files[i].name],
                pages |-> SortedPages(content)]
      backup == [name |-> BackupFileName, docs |-> <<>>, pages |-> content]
  IN bucket_files \o <<index, backup>>

(***************************************************************************)
(* State.                                                                  *)
(***************************************************************************)
VARIABLES
  urls_to_visit,    \* crawl_documentation: the frontier, a list
  visited,          \* crawl_documentation: the set of URLs taken from the frontier
  scraped_urls,     \* CloseDocScraper.scraped_urls
  scraped_content,  \* CloseDocScraper.scraped_content (the Corpus)
  site,             \* the pages the server has served so far: resource -> hrefs
  fetchLog,         \* one entry per session.get: [url, outcome, slept]
  events,           \* the texts written to status_text, in order
  enqueued,         \* every URL put on the frontier, in order
  dequeued,         \* every URL popped from the frontier, in order
  cancelled,        \* the user has interrupted the run
  pc,               \* main: "crawling" (in crawl_documentation) or "done"
  runStatus,        \* main: "running", "complete" (st.success) or "failed" (st.error)
  buckets,          \* create_organized_files: categorized_content and uncategorized
  files,            \* create_organized_files: the returned files, in order
  runs,             \* calls of crawl_documentation on the scraper so far
  calls,            \* calls of create_organized_files on the scraper so far
  probe             \* a call of is_documentation_url: [url, result]

vars == <<urls_to_visit, visited, scraped_urls, scraped_content, site, fetchLog, events,
          enqueued, dequeued, cancelled, pc, runStatus, buckets, files, runs, calls, probe>>

(***************************************************************************)
(* scrape_page.                                                            *)
(***************************************************************************)
ScrapingEvent(url) == [kind |-> "Scraping", url |-> url]

DebugEvent(url) == [kind |-> "DEBUG", url |-> url]

\* the except branch without its status_text line
NoErrorEvents(url) == <<>>

\* except Exception: status_text.text(f"Error scraping {url}: ...")
ErrorEvents(url) == <<[kind |-> "Error", url |-> url]>>

\* the link loop without the is_documentation_url test
DocLinksUnfiltered(url, hrefs) == [i \in 1..Len(hrefs) |-> UrlJoin(url, hrefs[i])]

\* for link in soup.find_all('a', href=True): urljoin, is_documentation_url
RECURSIVE DocLinks(_, _)
DocLinks(url, hrefs) ==
  IF hrefs = <<>> THEN <<>>
  ELSE LET absolute_url == UrlJoin(url, Head(hrefs))
       IN (IF is_documentation_url(absolute_url) THEN <<absolute_url>> ELSE <<>>)
          \o DocLinks(url, Tail(hrefs))

\* a scrape_page that fetches whatever it is given
NeverScraped(url, urls) == FALSE

\* if url in self.scraped_urls
AlreadyScraped(url, urls) == url \in urls

\* fetch_ok: session.get, raise_for_status and the extraction raise nothing;
\* hrefs: the href attributes of the page's <a> elements, in document order.
\* The result holds the returned links, the new instance state and what the
\* call wrote to status_text and asked of the session.
ScrapePage(url, fetch_ok, hrefs, content, urls) ==
  IF AlreadyScraped(url, urls)
  THEN [links |-> <<>>, content |-> content, urls |-> urls, events |-> <<>>, fetches |-> <<>>]
  ELSE IF ~fetch_ok
  THEN [links |-> <<>>, content |-> content, urls |-> urls,
        events |-> <<ScrapingEvent(url)>> \o ErrorEvents(url),
        fetches |-> <<[url |-> url, outcome |-> "fail", slept |-> FALSE]>>]
  ELSE LET stored == DictSet(content, url, [title |-> title_text(url), url |-> url])
       IN IF \A i \in 1..Len(hrefs) : Resolvable(hrefs[i])
          THEN [links |-> DocLinks(url, hrefs), content |-> stored, urls |-> urls \cup {url},
                events |-> <<ScrapingEvent(url)>>
                           \o (IF url = base_url THEN <<DebugEvent(url)>> ELSE <<>>),
                fetches |-> <<[url |-> url, outcome |-> "ok", slept |-> TRUE]>>]
          ELSE \* urljoin raises inside the try block, after the record is stored
               [links |-> <<>>, content |-> stored, urls |-> urls \cup {url},
                events |-> <<ScrapingEvent(url)>> \o ErrorEvents(url),
                fetches |-> <<[url |-> url, outcome |-> "link_error", slept |-> FALSE]>>]

(***************************************************************************)
(* crawl_documentation.                                                    *)
(***************************************************************************)
\* a pop from the end of the list
PopLast(queue) == Len(queue)

\* urls_to_visit.pop(0)
PopIndex(queue) == 1

RemoveAt(queue, i) == SubSeq(queue, 1, i - 1) \o SubSeq(queue, i + 1, Len(queue))

\* the loop without visited.add
NoMarkVisited(vis, url) == vis

\* visited.add(current_url)
MarkVisited(vis, url) == vis \cup {url}

\* the test without "link not in urls_to_visit"
NewLinkNoQueueTest(link, vis, queue) == link \notin vis

\* if link not in visited and link not in urls_to_visit
NewLink(link, vis, queue) == link \notin vis /\ ~InSeq(link, queue)

\* the links tested against the frontier as it was before the loop
EnqueueBatch(queue, vis, links) ==
  queue \o SelectSeq(links, LAMBDA link : NewLink(link, vis, queue))

\* for link in new_links: ... urls_to_visit.append(link)
RECURSIVE Enqueue(_, _, _)
Enqueue(queue, vis, links) ==
  IF links = <<>> THEN queue
  ELSE Enqueue(IF NewLink(Head(links), vis, queue) THEN Append(queue, Head(links)) ELSE queue,
               vis, Tail(links))

ProgressEvent(vis, queue) ==
  [kind |-> "Progress", scraped |-> Cardinality(vis), remaining |-> Len(queue)]

RECURSIVE SumLinks(_)
SumLinks(S) ==
  IF S = {} THEN 0
  ELSE LET r == CHOOSE x \in S : TRUE IN Len(site[r]) + SumLinks(S \ {r})

\* the hrefs of a page: as served before, or any sequence the budget allows
Served(res) ==
  IF res \in DOMAIN site THEN {site[res]}
  ELSE SeqUpTo(Hrefs, MaxLinks - SumLinks(DOMAIN site))

Failures == Cardinality({i \in 1..Len(fetchLog) : fetchLog[i].outcome = "fail"})

\* one iteration of "while urls_to_visit:"
CrawlStep ==
  /\ pc = "crawling"
  /\ urls_to_visit # <<>>
  /\ LET current_url == urls_to_visit[PopIndex(urls_to_visit)]
         rest == RemoveAt(urls_to_visit, PopIndex(urls_to_visit))
         res == StripFragment(current_url)
     IN /\ dequeued' = Append(dequeued, current_url)
        /\ IF current_url \in visited
           THEN /\ urls_to_visit' = rest
                /\ UNCHANGED <<visited, scraped_urls, scraped_content, site, fetchLog,
                               events, enqueued>>
           ELSE \E fetch_ok \in (IF Failures < MaxFail THEN {TRUE, FALSE} ELSE {TRUE}) :
                \E hrefs \in (IF fetch_ok /\ ~AlreadyScraped(current_url, scraped_urls)
                              THEN Served(res) ELSE {<<>>}) :
                  LET vis == MarkVisited(visited, current_url)
                      r == ScrapePage(current_url, fetch_ok, hrefs, scraped_content,
                                      scraped_urls)
                      queue == Enqueue(rest, vis, r.links)
                  IN /\ site' = IF fetch_ok /\ ~AlreadyScraped(current_url, scraped_urls)
                                THEN site @@ (res :> hrefs) ELSE site
                     /\ visited' = vis
                     /\ scraped_content' = r.content
                     /\ scraped_urls' = r.urls
                     /\ fetchLog' = fetchLog \o r.fetches
                     /\ urls_to_visit' = queue
                     /\ enqueued' = enqueued \o SubSeq(queue, Len(rest) + 1, Len(queue))
                     /\ events' = events \o r.events \o <<ProgressEvent(vis, queue)>>
  /\ UNCHANGED <<cancelled, pc, runStatus, buckets, files, runs, calls, probe>>

(***************************************************************************)
(* main.                                                                   *)
(***************************************************************************)
\* buckets that still hold what an earlier call put there
StaleBuckets(previous) == previous

\* categorized_content = {cat: [] for cat in categories}; uncategorized = []:
\* locals of the call, whatever an earlier call has built
FreshBuckets(previous) == EmptyBuckets

\* crawl_documentation has returned: st.success, create_organized_files,
\* st.success.  Nothing in this path raises, so the except branch with
\* st.error is never taken.
Organize ==
  /\ pc = "crawling"
  /\ urls_to_visit = <<>>
  /\ buckets' = Categorize(FreshBuckets(buckets), scraped_content)
  /\ files' = BuildFiles(buckets', scraped_content)
  /\ runStatus' = "complete"
  /\ pc' = "done"
  /\ calls' = calls + 1
  /\ UNCHANGED <<urls_to_visit, visited, scraped_urls, scraped_content, site, fetchLog,
                 events, enqueued, dequeued, cancelled, runs, probe>>

\* a further call of create_organized_files on the same scraper
OrganizeAgain ==
  /\ pc = "done"
  /\ calls < MaxCalls
  /\ buckets' = Categorize(FreshBuckets(buckets), scraped_content)
  /\ files' = BuildFiles(buckets', scraped_content)
  /\ calls' = calls + 1
  /\ UNCHANGED <<urls_to_visit, visited, scraped_urls, scraped_content, site, fetchLog,
                 events, enqueued, dequeued, cancelled, pc, runStatus, runs, probe>>

\* the user interrupts the run while the crawl is under way
Cancel ==
  /\ pc = "crawling"
  /\ ~cancelled
  /\ cancelled' = TRUE
  /\ UNCHANGED <<urls_to_visit, visited, scraped_urls, scraped_content, site, fetchLog,
                 events, enqueued, dequeued, pc, runStatus, buckets, files, runs, calls,
                 probe>>

\* is_documentation_url has not been called on its own
NoProbe == [url |-> <<>>, result |-> "none"]

\* scraper = CloseDocScraper(); crawl_documentation(start_url) up to the loop
Init ==
  /\ urls_to_visit = <<base_url>>
  /\ visited = {}
  /\ scraped_urls = {}
  /\ scraped_content = <<>>
  /\ site = <<>>
  /\ fetchLog = <<>>
  /\ events = <<>>
  /\ enqueued = <<base_url>>
  /\ dequeued = <<>>
  /\ cancelled = FALSE
  /\ pc = "crawling"
  /\ runStatus = "running"
  /\ buckets = EmptyBuckets
  /\ files = <<>>
  /\ runs = 1
  /\ calls = 0
  /\ probe = NoProbe

Next == CrawlStep \/ Organize \/ Cancel

Spec == Init /\ [][Next]_vars

(***************************************************************************)
(* Vocabulary of the properties.                                           *)
(***************************************************************************)
FetchedUrls == [i \in 1..Len(fetchLog) |-> fetchLog[i].url]

OutcomeOf(url) == fetchLog[IndexOf(url, FetchedUrls)].outcome

\* the in-scope links the crawl got from url: those of a scrape_page call
\* that returned its links
LinksFrom(url) ==
  IF InSeq(url, FetchedUrls) /\ OutcomeOf(url) = "ok"
  THEN Range(DocLinks(url, site[StripFragment(url)]))
  ELSE {}

\* the URLs within k links of the start URL
RECURSIVE ReachWithin(_)
ReachWithin(k) ==
  IF k = 0 THEN {enqueued[1]}
  ELSE LET R == ReachWithin(k - 1) IN R \cup UNION {LinksFrom(u) : u \in R}

\* length of the shortest link-path from the start URL
Dist(url) == CHOOSE k \in 0..Len(enqueued) :
               /\ url \in ReachWithin(k)
               /\ \A j \in 0..(k - 1) : url \notin ReachWithin(j)

(***************************************************************************)
(* C1: in one run of crawl_documentation no URL is asked of the session    *)
(* (session.get in scrape_page) more than once, whether the attempt        *)
(* succeeded or failed.                                                    *)
(***************************************************************************)
C1_AtMostOneFetchPerUrl == NoDup(FetchedUrls)

\* a URL whose fetch failed is linked from a page fetched later, and the
\* run has ended
C1_Witness ==
  /\ pc = "done"
  /\ \E i, j \in 1..Len(fetchLog) :
       /\ i < j
       /\ fetchLog[i].outcome = "fail"
       /\ fetchLog[i].url \in LinksFrom(fetchLog[j].url)

(***************************************************************************)
(* C2: the frontier holds no URL twice and no visited URL; every URL ever  *)
(* popped is in visited; no URL is put on the frontier twice in a run, so  *)
(* no URL is popped twice and the "already visited" test after the pop     *)
(* never succeeds.                                                         *)
(***************************************************************************)
C2_FrontierInvariant ==
  /\ NoDup(urls_to_visit)
  /\ Range(urls_to_visit) \cap visited = {}
  /\ Range(dequeued) \subseteq visited
  /\ NoDup(enqueued)
  /\ NoDup(dequeued)

\* a page has returned the same link twice and a link to a visited URL
\* while the frontier is not empty
C2_Witness ==
  /\ urls_to_visit # <<>>
  /\ \E i \in 1..Len(fetchLog) :
       /\ fetchLog[i].outcome = "ok"
       /\ ~NoDup(DocLinks(fetchLog[i].url, site[StripFragment(fetchLog[i].url)]))
  /\ \E i \in 1..Len(fetchLog) :
       LinksFrom(fetchLog[i].url) \cap {fetchLog[j].url : j \in 1..i} # {}

C4_FailureIsLocal ==
  [][ /\ \A i \in 1..Len(fetchLog) :
           fetchLog[i].outcome = "fail" =>
             /\ fetchLog[i].url \in visited'
             /\ \A j \in (Len(fetchLog) + 1)..Len(fetchLog') : fetchLog'[j].url # fetchLog[i].url
      /\ (Len(fetchLog') = Len(fetchLog) + 1 /\ fetchLog'[Len(fetchLog')].outcome = "fail") =>
           LET X == fetchLog'[Len(fetchLog')].url
           IN /\ X = Head(urls_to_visit)
              /\ \E k \in (Len(events) + 1)..Len(events') :
                   events'[k] = [kind |-> "Error", url |-> X]
              /\ scraped_content' = scraped_content
              /\ scraped_urls' = scraped_urls
              /\ X \in visited'
              /\ urls_to_visit' = Tail(urls_to_visit)
              /\ pc' = "crawling"
    ]_vars

\* a fetch failed, the Corpus holds a record fetched after it, and a later
\* page links to the failed URL
C4_Witness ==
  \E i, j \in 1..Len(fetchLog) :
    /\ i < j
    /\ fetchLog[i].outcome = "fail"
    /\ fetchLog[j].outcome = "ok"
    /\ fetchLog[j].url \in Keys(scraped_content)
    /\ fetchLog[i].url \in visited
    /\ fetchLog[i].url \in LinksFrom(fetchLog[j].url)

(***************************************************************************)
(* C5: once the user has interrupted the run, the loop fetches no further  *)
(* page and the Corpus and visited stay as they are (so an interruption    *)
(* after the first page leaves a Corpus of one record to build the bundle  *)
(* from).                                                                  *)
(***************************************************************************)
C5_CancellationStopsCrawl ==
  [][cancelled => /\ fetchLog' = fetchLog
                  /\ scraped_content' = scraped_content
                  /\ visited' = visited]_vars

(***************************************************************************)
(* C6: no URL the classifier rejects is ever on the frontier; and when a   *)
(* run in which no fetch failed has ended, the Corpus keys and visited are *)
(* exactly the URLs reachable from the start URL through in-scope links.   *)
(***************************************************************************)
\* the in-scope links of the page at url, as the site serves it
SiteLinks(url) ==
  IF StripFragment(url) \in DOMAIN site
  THEN {l \in {UrlJoin(url, h) : h \in {g \in Range(site[StripFragment(url)]) : Resolvable(g)}} :
          is_documentation_url(l)}
  ELSE {}

RECURSIVE Closure(_)
Closure(S) ==
  LET N == S \cup UNION {SiteLinks(u) : u \in S}
  IN IF N = S THEN S ELSE Closure(N)

NoFetchFailed == \A i \in 1..Len(fetchLog) : fetchLog[i].outcome # "fail"

C6_CrawlCoversReachable ==
  /\ \A i \in 1..Len(enqueued) : is_documentation_url(enqueued[i])
  /\ (pc = "done" /\ NoFetchFailed) =>
       /\ Keys(scraped_content) = Closure({enqueued[1]})
       /\ visited = Closure({enqueued[1]})

(***************************************************************************)
(* C7: a run whose Corpus is empty when the frontier empties (every fetch  *)
(* failed) reports a failure; a run with a record in the Corpus completes  *)
(* normally.                                                               *)
(***************************************************************************)
C7_EmptyCorpusReportsFailure ==
  pc = "done" => (IF scraped_content = <<>> THEN runStatus = "failed" ELSE runStatus = "complete")

(***************************************************************************)
(* C8: every fetch that is followed by another fetch was followed by the   *)
(* courtesy delay (time.sleep), whatever its outcome.                      *)
(***************************************************************************)
C8_DelayBetweenFetches ==
  \A i \in 1..Len(fetchLog) : i < Len(fetchLog) => fetchLog[i].slept

(***************************************************************************)
(* C9: a fragment-only link on page P resolves to P's own URL: no URL with *)
(* a fragment is put on the frontier and no page is fetched a second time  *)
(* under a URL that differs only in its fragment.                          *)
(***************************************************************************)
C9_FragmentLinkAbsorbed ==
  /\ \A i \in 1..Len(fetchLog) :
       (fetchLog[i].outcome = "ok" /\ InSeq(HrefFrag, site[StripFragment(fetchLog[i].url)]))
         => UrlJoin(fetchLog[i].url, HrefFrag) = fetchLog[i].url
  /\ \A i \in 1..Len(enqueued) : ~InSeq(FragTok, enqueued[i])
  /\ \A i, j \in 1..Len(fetchLog) :
       StripFragment(fetchLog[i].url) = StripFragment(fetchLog[j].url) => i = j

(***************************************************************************)
(* The categorizer on its own: main after a crawl that has left an         *)
(* arbitrary Corpus of at most MaxCorpus records.                          *)
(***************************************************************************)
CatUrls == {base_url, PageUrl("leads"), PageUrl("Errors"),
            base_url \o <<"/", "custom-", "activities">>,
            base_url \o <<"/", "custom-", "objects">>,
            base_url \o <<"/", "custom-", "fields">>}

CatTitles == {<<"Close", " ", "API">>, <<"WEBHOOKS", " ", "guide">>, <<"leads">>,
              <<"custom-", "objects">>}

CatRecords == {[title |-> t, url |-> u] : t \in CatTitles, u \in CatUrls}

Corpora == {c \in SeqUpTo(CatRecords, MaxCorpus) : \A i, j \in 1..Len(c) : c[i].url = c[j].url => i = j}

CatInit ==
  /\ scraped_content \in Corpora
  /\ urls_to_visit = <<>>
  /\ visited = Keys(scraped_content)
  /\ scraped_urls = Keys(scraped_content)
  /\ site = <<>>
  /\ fetchLog = [i \in 1..Len(scraped_content) |->
                   [url |-> scraped_content[i].url, outcome |-> "ok", slept |-> TRUE]]
  /\ events = <<>>
  /\ enqueued = [i \in 1..Len(scraped_content) |-> scraped_content[i].url]
  /\ dequeued = [i \in 1..Len(scraped_content) |-> scraped_content[i].url]
  /\ cancelled = FALSE
  /\ pc = "crawling"
  /\ runStatus = "running"
  /\ buckets = EmptyBuckets
  /\ files = <<>>
  /\ runs = 1
  /\ calls = 0
  /\ probe = NoProbe

CatNext == Organize \/ OrganizeAgain

CatSpec == CatInit /\ [][CatNext]_vars

(***************************************************************************)
(* C10: every record of the Corpus is in exactly one bucket: that of the   *)
(* first rule, in rule order, with a keyword in the record's lower-cased   *)
(* URL or title, or the catch-all bucket when no rule has one; and every   *)
(* bucket lists its records in Corpus order.                               *)
(***************************************************************************)
\* the rules with a keyword in the record's URL or title
RulesHit(record) ==
  LET url_lower == LowerText(record.url)
      title_lower == LowerText(record.title)
  IN {c \in 1..Len(categories) :
        \E k \in 1..Len(categories[c].keywords) :
          \/ Contains(url_lower, categories[c].keywords[k])
          \/ Contains(title_lower, categories[c].keywords[k])}

\* bucket 0 is the catch-all
BucketWanted(record) ==
  LET hit == RulesHit(record)
  IN IF hit = {} THEN 0 ELSE CHOOSE c \in hit : \A d \in hit : c <= d

BucketList(c) == IF c = 0 THEN buckets.uncategorized ELSE buckets.categorized[c]

C10_OneBucketFirstRuleWins ==
  pc = "done" =>
    /\ \A i \in 1..Len(scraped_content) :
         {c \in 0..Len(categories) : InSeq(scraped_content[i], BucketList(c))}
           = {BucketWanted(scraped_content[i])}
    /\ \A c \in 0..Len(categories) :
         LET InBucket(record) == BucketWanted(record) = c
         IN BucketList(c) = SelectSeq(scraped_content, InBucket)

\* a record that two rules match, and two records in one bucket
C10_Witness ==
  /\ pc = "done"
  /\ \E i \in 1..Len(scraped_content) : Cardinality(RulesHit(scraped_content[i])) >= 2
  /\ \E c \in 0..Len(categories) : Len(BucketList(c)) >= 2

CaseClasses == {{"webhooks", "Webhooks", "WEBHOOKS"}, {"leads", "Leads"},
                {"errors", "Errors"}, {"close", "Close"}, {"api", "API"}}

SameWord(a, b) == a = b \/ \E S \in CaseClasses : a \in S /\ b \in S

\* the text holds the keyword, letter case aside
HoldsKeyword(text, keyword) ==
  \E i \in 0..(Len(text) - Len(keyword)) :
    \A j \in 1..Len(keyword) : SameWord(text[i + j], keyword[j])

TitleHolds(record, c) ==
  \E k \in 1..Len(categories[c].keywords) : HoldsKeyword(record.title, categories[c].keywords[k])

UrlHolds(record, c) ==
  \E k \in 1..Len(categories[c].keywords) : HoldsKeyword(record.url, categories[c].keywords[k])

C12_TitleKeywordDecides ==
  pc = "done" =>
    \A i \in 1..Len(scraped_content) : \A c \in 1..Len(categories) :
      LET record == scraped_content[i]
      IN (/\ TitleHolds(record, c)
          /\ \A d \in 1..(c - 1) : ~TitleHolds(record, d) /\ ~UrlHolds(record, d))
         => InSeq(record, buckets.categorized[c])

\* a record with "WEBHOOKS" in its title and no keyword in its URL is in
\* the bucket of the rule that lists "webhooks"
C12_Witness ==
  /\ pc = "done"
  /\ \E i \in 1..Len(scraped_content) :
       /\ InSeq("WEBHOOKS", scraped_content[i].title)
       /\ \A c \in 1..Len(categories) : ~UrlHolds(scraped_content[i], c)
       /\ InSeq(scraped_content[i], buckets.categorized[3])
       /\ InSeq(<<"webhooks">>, categories[3].keywords)

(***************************************************************************)
(* C13: the bundle has a bucket document exactly for the non-empty buckets *)
(* (the catch-all included), exactly one master index and one backup; the  *)
(* index lists exactly the bucket documents of the bundle; every Corpus    *)
(* record is in exactly one bucket document, once, and once in the page    *)
(* list of the index, which is in title order.                             *)
(***************************************************************************)
BucketFileName(c) == IF c = 0 THEN AdditionalFileName ELSE CategoryFileName(c)

FilesNamed(name) == {i \in 1..Len(files) : files[i].name = name}

BucketDocs == {i \in 1..Len(files) : files[i].name \notin {IndexFileName, BackupFileName}}

\* the places (document, position) where a record is rendered in bucket documents
PlacesOf(record) ==
  {<<i, j>> \in BucketDocs \X (1..MaxCorpus + 1) :
     j <= Len(files[i].pages) /\ files[i].pages[j] = record}

C13_BundleContents ==
  pc = "done" =>
    /\ \A c \in 0..Len(categories) :
         /\ Cardinality(FilesNamed(BucketFileName(c))) = (IF BucketList(c) # <<>> THEN 1 ELSE 0)
         /\ \A i \in FilesNamed(BucketFileName(c)) : files[i].pages # <<>>
    /\ \A i \in BucketDocs : \E c \in 0..Len(categories) : files[i].name = BucketFileName(c)
    /\ Cardinality(FilesNamed(IndexFileName)) = 1
    /\ Cardinality(FilesNamed(BackupFileName)) = 1
    /\ \A x \in FilesNamed(IndexFileName) :
         /\ NoDup(files[x].docs)
         /\ Range(files[x].docs) = {files[i].name : i \in BucketDocs}
         /\ Len(files[x].pages) = Len(scraped_content)
         /\ \A k \in 1..Len(scraped_content) :
              Cardinality({j \in 1..Len(files[x].pages) : files[x].pages[j] = scraped_content[k]}) = 1
         /\ \A j \in 1..Len(files[x].pages) : \A k \in (j + 1)..Len(files[x].pages) :
              ~TitleLess(files[x].pages[k].title, files[x].pages[j].title)
    /\ \A k \in 1..Len(scraped_content) : Cardinality(PlacesOf(scraped_content[k])) = 1

\* a bundle of two bucket documents (one of them the catch-all), with some
\* bucket left empty, whose index had to reorder the Corpus
C13_Witness ==
  /\ pc = "done"
  /\ Cardinality(BucketDocs) = 2
  /\ FilesNamed(AdditionalFileName) # {}
  /\ \E x \in FilesNamed(IndexFileName) :
       /\ Len(files[x].pages) = 2
       /\ files[x].pages # scraped_content
       /\ Len(files[x].docs) = 2

(***************************************************************************)
(* The classifier on its own: is_documentation_url(url) called once on a   *)
(* URL drawn from the URLs below.                                          *)
(***************************************************************************)
ProbeHosts == {DocHost, "api.developer.close.com", "github.com", "example.com"}

ProbePaths == {<<>>, <<"/", "guide">>, <<"/", "guide", ".pdf">>, <<"/", "app", ".js">>,
               <<"/", "github.com">>, <<"/", "Guide", ".PDF">>}

\* what may follow the path: nothing, a query string, a fragment
ProbeSuffixes == {<<>>, <<"?download=1">>, <<FragTok>>}

ProbeUrls ==
  {<<sch, h>> \o p \o x : sch \in WebSchemes, h \in ProbeHosts, p \in ProbePaths, x \in ProbeSuffixes}
  \cup {<<"mailto:", "support@close.com">>, <<"tel:", "+18005551234">>, HrefBad}

ClassifyInit ==
  /\ urls_to_visit = <<>>
  /\ visited = {}
  /\ scraped_urls = {}
  /\ scraped_content = <<>>
  /\ site = <<>>
  /\ fetchLog = <<>>
  /\ events = <<>>
  /\ enqueued = <<>>
  /\ dequeued = <<>>
  /\ cancelled = FALSE
  /\ pc = "classify"
  /\ runStatus = "running"
  /\ buckets = EmptyBuckets
  /\ files = <<>>
  /\ runs = 0
  /\ calls = 0
  /\ probe \in {[url |-> u, result |-> "none"] : u \in ProbeUrls}

\* one call of is_documentation_url: urlparse raises ValueError on a
\* malformed authority, otherwise the conjunction of line 37 is returned
Classify ==
  /\ pc = "classify"
  /\ probe.result = "none"
  /\ probe' = [probe EXCEPT !.result =
                 IF ~Resolvable(probe.url) THEN "raises"
                 ELSE IF is_documentation_url(probe.url) THEN "true" ELSE "false"]
  /\ UNCHANGED <<urls_to_visit, visited, scraped_urls, scraped_content, site, fetchLog,
                 events, enqueued, dequeued, cancelled, pc, runStatus, buckets, files,
                 runs, calls>>

ClassifyNext == Classify

ClassifySpec == ClassifyInit /\ [][ClassifyNext]_vars

(***************************************************************************)
(* C14: is_documentation_url returns a boolean, without raising, for every *)
(* URL, and returns true exactly when the host is the documentation host,  *)
(* the path (what precedes any query string or fragment) does not end in a *)
(* non-document extension, and the URL is neither on an external-service   *)
(* domain nor a mail or telephone URL.                                     *)
(***************************************************************************)
\* the host of a URL: the component after the scheme
HostOf(url) == IF Len(url) >= 2 /\ url[1] \in {"https://", "http://"} THEN url[2] ELSE ""

\* the path of a URL: what follows the host, up to the query string or fragment
RECURSIVE UpToSuffix(_)
UpToSuffix(toks) ==
  IF toks = <<>> \/ Head(toks) \in {"?download=1", "#section"} THEN <<>>
  ELSE <<Head(toks)>> \o UpToSuffix(Tail(toks))

PathOf(url) == IF HostOf(url) = "" THEN <<>> ELSE UpToSuffix(SubSeq(url, 3, Len(url)))

NonDocumentPath(url) ==
  PathOf(url) # <<>> /\
  PathOf(url)[Len(PathOf(url))] \in {".pdf", ".jpg", ".png", ".css", ".js", ".svg", ".ico"}

ExternalService(url) ==
  \/ HostOf(url) \in {"github.com", "twitter.com", "linkedin.com"}
  \/ (url # <<>> /\ url[1] \in {"mailto:", "tel:"})

InScopeByRules(url) ==
  /\ HostOf(url) = "developer.close.com"
  /\ ~NonDocumentPath(url)
  /\ ~ExternalService(url)

\* a URL with a scheme the URL syntax knows and a well-formed authority
SyntacticallyValid(url) == url # <<>> /\ url[1] \in {"https://", "http://", "mailto:", "tel:"}

C14_ClassifierRules ==
  (probe.result # "none" /\ SyntacticallyValid(probe.url)) =>
    /\ probe.result \in {"true", "false"}
    /\ (probe.result = "true") <=> InScopeByRules(probe.url)

(***************************************************************************)
(* The crawl loop as the interpreter runs it: an iteration that can be     *)
(* taken is taken.                                                         *)
(***************************************************************************)
LiveNext == CrawlStep

LiveSpec == Init /\ [][LiveNext]_vars /\ WF_vars(CrawlStep)

(***************************************************************************)
(* C15: whatever the site serves and whichever fetches fail, the loop      *)
(* reaches the terminal state (empty frontier), and it has then made as    *)
(* many iterations as there are distinct URLs that were ever enqueued.     *)
(***************************************************************************)
Iterations == Len(dequeued)

C15_LoopTerminates ==
  /\ <>(urls_to_visit = <<>>)
  /\ [](urls_to_visit = <<>> => Iterations = Cardinality(Range(enqueued)))

\* a terminal state after three iterations, one of which failed to fetch
\* and one of which met a link that was already queued or visited
C15_Witness ==
  /\ urls_to_visit = <<>>
  /\ Iterations >= 3
  /\ \E i \in 1..Len(fetchLog) : fetchLog[i].outcome = "fail"
  /\ SumLinks(DOMAIN site) > Len(enqueued) - 1

(***************************************************************************)
(* C16: at every iteration boundary of a crawl on a fresh scraper the keys *)
(* of the Corpus are scraped_urls and lie in visited; the visited URLs     *)
(* that are not keys of the Corpus are exactly the URLs whose fetch or     *)
(* parse failed; and a step neither removes nor overwrites an entry of the *)
(* Corpus nor removes a visited URL.                                       *)
(***************************************************************************)
\* the URLs whose request or parsing raised (lines 73-89)
FailedUrls == {fetchLog[i].url : i \in {j \in 1..Len(fetchLog) : fetchLog[j].outcome = "fail"}}

CorpusAccounts ==
  /\ Cardinality(Keys(scraped_content)) = Len(scraped_content)
  /\ Keys(scraped_content) = scraped_urls
  /\ scraped_urls \subseteq visited
  /\ visited \ Keys(scraped_content) = FailedUrls

CorpusOnlyGrows ==
  /\ Len(scraped_content') >= Len(scraped_content)
  /\ \A i \in 1..Len(scraped_content) : scraped_content'[i] = scraped_content[i]
  /\ visited \subseteq visited'

C16_CorpusVisitedAccounting ==
  CorpusAccounts /\ [][CorpusAccounts' /\ CorpusOnlyGrows]_vars

\* two pages stored, a third visited but not stored because its fetch
\* failed, and one of the stored pages had a link that could not be resolved
C16_Witness ==
  /\ Len(scraped_content) >= 2
  /\ visited \ scraped_urls # {}
  /\ \E i \in 1..Len(fetchLog) :
       fetchLog[i].outcome = "link_error" /\ fetchLog[i].url \in Keys(scraped_content)

(***************************************************************************)
(* A crawl from the URL typed into "Starting URL": crawl_documentation is  *)
(* given main's start_url, whatever it is.                                 *)
(***************************************************************************)
StartUrls == {base_url, HrefExt}

StartInit ==
  /\ \E start_url \in StartUrls :
       /\ urls_to_visit = <<start_url>>
       /\ enqueued = <<start_url>>
  /\ visited = {}
  /\ scraped_urls = {}
  /\ scraped_content = <<>>
  /\ site = <<>>
  /\ fetchLog = <<>>
  /\ events = <<>>
  /\ dequeued = <<>>
  /\ cancelled = FALSE
  /\ pc = "crawling"
  /\ runStatus = "running"
  /\ buckets = EmptyBuckets
  /\ files = <<>>
  /\ runs = 1
  /\ calls = 0
  /\ probe = NoProbe

StartNext == CrawlStep \/ Organize \/ Cancel

StartSpec == StartInit /\ [][StartNext]_vars

(***************************************************************************)
(* C17: the start URL is enqueued and fetched whatever the classifier says *)
(* of it, so it is visited, and stored when its fetch succeeds, even when  *)
(* it is out of scope; every other URL that is enqueued, fetched or stored *)
(* is in scope.                                                            *)
(***************************************************************************)
StartUrl == enqueued[1]

C17_OnlyStartUnclassified ==
  pc \in {"crawling", "done"} =>
    /\ \A u \in (Range(enqueued) \cup Range(FetchedUrls) \cup Keys(scraped_content)) \ {StartUrl} :
         is_documentation_url(u)
    /\ dequeued # <<>> =>
         /\ StartUrl \in visited
         /\ fetchLog # <<>> /\ fetchLog[1].url = StartUrl
         /\ fetchLog[1].outcome # "fail" => StartUrl \in Keys(scraped_content)

\* an out-of-scope start URL that was stored, with a page it linked to
C17_Witness ==
  /\ pc \in {"crawling", "done"}
  /\ ~is_documentation_url(StartUrl)
  /\ StartUrl \in Keys(scraped_content)
  /\ Len(scraped_content) >= 2
  /\ Len(fetchLog) >= 2

(***************************************************************************)
(* crawl_documentation called again on the same scraper: urls_to_visit and *)
(* visited are locals of the call, scraped_urls and scraped_content are    *)
(* fields of the instance.                                                 *)
(***************************************************************************)
\* the start URL of a later call: a URL an earlier call has tried
RerunStarts == {fetchLog[i].url : i \in 1..Len(fetchLog)}

CrawlAgain ==
  /\ pc = "crawling"
  /\ urls_to_visit = <<>>
  /\ runs < MaxRuns
  /\ \E start_url \in RerunStarts :
       /\ urls_to_visit' = <<start_url>>
       /\ enqueued' = <<start_url>>
  /\ visited' = {}
  /\ dequeued' = <<>>
  /\ runs' = runs + 1
  /\ UNCHANGED <<scraped_urls, scraped_content, site, fetchLog, events, cancelled, pc,
                 runStatus, buckets, files, calls, probe>>

RerunNext == CrawlStep \/ CrawlAgain

RerunSpec == Init /\ [][RerunNext]_vars

(***************************************************************************)
(* C18: scraped_urls and the Corpus outlive a call of crawl_documentation. *)
(* In a later call on the same scraper a URL already in scraped_urls is    *)
(* not fetched and yields no links, so a crawl from an already scraped     *)
(* start URL ends after one iteration with no fetch and the same Corpus;   *)
(* a URL whose fetch failed before is not in scraped_urls and is fetched   *)
(* again when a later call comes to it.                                    *)
(***************************************************************************)
Popped == urls_to_visit[1]

IterationOfLaterCall == runs >= 2 /\ urls_to_visit # <<>> /\ runs' = runs

C18_InstanceStateSurvives ==
  [][ /\ runs' # runs => (scraped_urls' = scraped_urls /\ scraped_content' = scraped_content)
      /\ (IterationOfLaterCall /\ Popped \in scraped_urls) =>
           /\ fetchLog' = fetchLog
           /\ scraped_content' = scraped_content
           /\ urls_to_visit' = Tail(urls_to_visit)
      /\ (IterationOfLaterCall /\ Popped \notin scraped_urls /\ Popped \notin visited) =>
           /\ Len(fetchLog') = Len(fetchLog) + 1
           /\ fetchLog'[Len(fetchLog')].url = Popped
    ]_vars

\* the second call started at a URL whose fetch had failed in the first:
\* it was fetched again, and the page it linked to, scraped in the first
\* call, was dequeued without a fetch
C18_Witness ==
  /\ runs = 2
  /\ urls_to_visit = <<>>
  /\ Len(dequeued) = 2
  /\ \E i, j \in 1..Len(fetchLog) :
       /\ i < j
       /\ fetchLog[i].url = dequeued[1] /\ fetchLog[i].outcome = "fail"
       /\ fetchLog[j].url = dequeued[1] /\ fetchLog[j].outcome = "ok"
       /\ \E k \in 1..(i - 1) : fetchLog[k].url = dequeued[2]
       /\ \A k \in i..Len(fetchLog) : fetchLog[k].url # dequeued[2]

(***************************************************************************)
(* C19: with the rules tried in their fixed order and the first match      *)
(* deciding, a record is in the Custom_Objects bucket only if its URL or   *)
(* title holds "custom-objects": a record that holds "custom-activities"   *)
(* is taken by Resources (keyword "activities") or an earlier rule, and a  *)
(* record that holds "custom-fields" by Advanced_Features or an earlier    *)
(* rule.                                                                   *)
(***************************************************************************)
RuleNamed(name) == CHOOSE c \in 1..Len(categories) : categories[c].name = name

Holds(record, keyword) == HoldsKeyword(record.url, keyword) \/ HoldsKeyword(record.title, keyword)

\* the rule whose bucket holds the record, 0 for the catch-all
BucketOf(record) == CHOOSE c \in 0..Len(categories) : InSeq(record, BucketList(c))

C19_CustomObjectsOnlyByOwnKeyword ==
  pc = "done" =>
    \A i \in 1..Len(scraped_content) :
      LET record == scraped_content[i]
      IN /\ BucketOf(record) = RuleNamed("Custom_Objects") => Holds(record, <<"custom-", "objects">>)
         /\ Holds(record, <<"custom-", "activities">>) =>
              BucketOf(record) \in 1..RuleNamed("Resources")
         /\ Holds(record, <<"custom-", "fields">>) =>
              BucketOf(record) \in 1..RuleNamed("Advanced_Features")

\* a page at /custom-activities filed under Resources next to a page at
\* /custom-objects filed under Custom_Objects
C19_Witness ==
  /\ pc = "done"
  /\ \E i, j \in 1..Len(scraped_content) :
       /\ Holds(scraped_content[i], <<"custom-", "activities">>)
       /\ BucketOf(scraped_content[i]) = RuleNamed("Resources")
       /\ BucketOf(scraped_content[j]) = RuleNamed("Custom_Objects")

====
